---------------------------- MODULE Spec2Model ----------------------------
(***************************************************************************)
(* TopStepX client library: the authentication/session component           *)
(* (src/src/topstepx/auth.py) and the request protocol that every domain   *)
(* operation of TopStepXClient applies (src/src/topstepx/client.py).       *)
(*                                                                         *)
(* Encoding of Python values.                                              *)
(*   Optional[T]   a sequence of length <= 1: None is << >>, x is <<x>>.   *)
(*   list          a sequence.                                             *)
(*   dict (JSON)   a function whose DOMAIN is the set of keys present, so  *)
(*                 that a missing key and a key holding null differ.       *)
(*   datetime      minutes on an integer clock; timedelta is minutes.      *)
(*                                                                         *)
(* A coroutine runs without interruption between two awaits that really    *)
(* suspend; the suspension points are the network exchanges and the close  *)
(* of the transport session on leaving `async with`.                       *)
(***************************************************************************)
EXTENDS Integers, Sequences, FiniteSets, TLC

VARIABLES
    token,          \* TopStepXAuth.token          : Optional[str]
    token_expires,  \* TopStepXAuth.token_expires  : Optional[datetime]
    now,            \* datetime.now()
    pc,             \* pc[t]     : where invocation t stands
    op,             \* op[t]     : the public method task t invoked
    hdr,            \* hdr[t]    : headers sent with t's own request (Optional)
    trace,          \* trace[t]  : exchanges of the current invocation (history)
    before,         \* before[t] : the session fields when t was invoked (history)
    res,            \* res[t]    : outcome of the invocation, once it ended
    elapsed,        \* elapsed[t]: time has passed since t's invocation ended
    loginTime       \* clock of the last successful login (history), Optional

vars == <<token, token_expires, now, pc, op, hdr, trace, before, res, elapsed,
          loginTime>>

-----------------------------------------------------------------------------
(* Python values *)

None == << >>

Some(x) == <<x>>

\* dict.get(key, default)
Get(data, key, default) == IF key \in DOMAIN data THEN data[key] ELSE default

\* bool(v) for an Optional[bool]
Truthy(v) == v # None /\ v[1] = TRUE

\* bool(s) for an Optional[str]: None and "" are falsy
TruthyStr(s) == s # None /\ s[1] # ""

\* f"{v}" for an Optional[str]
Format(v) == IF v = None THEN "None" ELSE v[1]

Restrict(f, K) == [k \in K |-> f[k]]

Count(s, e) == Cardinality({i \in DOMAIN s : s[i] = e})

-----------------------------------------------------------------------------
(* Policy constants of TopStepXAuth *)

TOKEN_VALIDITY_HOURS == 24

TOKEN_REFRESH_MARGIN_MINUTES == 5

\* timedelta(hours = h), timedelta(minutes = m) on the minute clock
Hours(h) == h * 60

Minutes(m) == m

-----------------------------------------------------------------------------
(* Bounds of the model *)

MaxTime == 1500

\* The coroutines that may run on one TopStepXAuth / TopStepXClient pair.
Tasks == {"main", "other"}

\* The caller of the sequential specification.
Main == "main"

-----------------------------------------------------------------------------
(* The public methods *)

DomainOps ==
    {"get_active_accounts", "get_available_contracts", "place_order",
     "search_orders", "get_open_orders", "cancel_order", "modify_order",
     "get_open_positions", "close_position", "partial_close_position",
     "search_trades"}

\* Variant: every client method raises APIError
ErrorKindGeneric(o) == "APIError"

\* The exception class each client method raises on an envelope failure.
ErrorKind(o) ==
    CASE o \in {"get_active_accounts", "get_available_contracts", "search_trades"}
           -> "APIError"
      [] o \in {"place_order", "search_orders", "get_open_orders", "cancel_order",
                "modify_order"}
           -> "OrderError"
      [] o \in {"get_open_positions", "close_position", "partial_close_position"}
           -> "PositionError"

\* The envelope field a list operation unwraps; the others return the envelope.
PayloadKey(o) ==
    CASE o = "get_active_accounts" -> "accounts"
      [] o = "get_available_contracts" -> "contracts"
      [] o \in {"search_orders", "get_open_orders"} -> "orders"
      [] o = "get_open_positions" -> "positions"
      [] o = "search_trades" -> "trades"
      [] OTHER -> "orderId"

ReturnsEnvelope(o) ==
    o \in {"place_order", "cancel_order", "modify_order", "close_position",
           "partial_close_position"}

-----------------------------------------------------------------------------
(* The code between the awaits *)

\* Variant: `>` in place of `>=`
IsTokenExpiredStrict(exp, clock) ==
    IF exp = None
      THEN TRUE
      ELSE clock > exp[1] - Minutes(TOKEN_REFRESH_MARGIN_MINUTES)

\* TopStepXAuth._is_token_expired
_is_token_expired(exp, clock) ==
    IF exp = None
      THEN TRUE
      ELSE clock >= exp[1] - Minutes(TOKEN_REFRESH_MARGIN_MINUTES)

\* Variant: a login on every call
NeedsLoginAlways(tok, exp, clock) == TRUE

\* Variant: `self.token and self._is_token_expired()`
NeedsLoginIfTokenHeld(tok, exp, clock) ==
    TruthyStr(tok) /\ IsTokenExpiredStrict(exp, clock)

\* The condition of get_valid_token: `not self.token or self._is_token_expired()`
NeedsLogin(tok, exp, clock) == ~TruthyStr(tok) \/ _is_token_expired(exp, clock)

\* TopStepXAuth.get_headers
get_headers(tok) == [Authorization |-> "Bearer " \o Format(tok)]

\* Variant: `data.get("success")` alone
IsSuccessFlagOnly(data) == Truthy(Get(data, "success", None))

\* `data.get("success") and data.get("errorCode") == 0`
IsSuccess(data) ==
    Truthy(Get(data, "success", None)) /\ Get(data, "errorCode", None) = Some(0)

\* `message=data.get("errorMessage", "Unknown error")`
ErrorMessage(data) == Get(data, "errorMessage", Some("Unknown error"))

\* `error_code=data.get("errorCode")`
ErrorCode(data) == Get(data, "errorCode", None)

\* Variant: no call of raise_for_status
NeverRaisesForStatus(resp) == FALSE

\* httpx.Response.raise_for_status raises unless the status is 2xx
RaisesForStatus(resp) == ~(resp.status >= 200 /\ resp.status <= 299)

\* What a client method returns from a success envelope
Payload(o, data) ==
    IF ReturnsEnvelope(o) THEN data ELSE Get(data, PayloadKey(o), << >>)

\* Variant: the token is stored and the expiry is not
NewExpiryMissing(clock) == None

\* Variant: timedelta(minutes=TOKEN_VALIDITY_HOURS)
NewExpiryInMinutes(clock) == Some(clock + Minutes(TOKEN_VALIDITY_HOURS))

\* `self.token_expires = datetime.now() + timedelta(hours=TOKEN_VALIDITY_HOURS)`
NewExpiry(clock) == Some(clock + Hours(TOKEN_VALIDITY_HOURS))

-----------------------------------------------------------------------------
(* What the remote service and the transport may answer *)

Tokens == {"abc", "xyz"}

\* Envelope fields of every endpoint.  success and errorCode may be missing;
\* errorMessage may be missing, null or a text.
FullEnvelopes ==
    [success : {Some(TRUE), Some(FALSE)},
     errorCode : {Some(0), Some(7)},
     errorMessage : {None, Some("bad key")}]

Envelopes ==
    {Restrict(e, K) : e \in FullEnvelopes,
                      K \in SUBSET {"success", "errorCode", "errorMessage"}}

With(e, k, v) == [x \in DOMAIN e \cup {k} |-> IF x = k THEN v ELSE e[x]]

\* The envelopes that say success: true
SayingSuccess == {e \in Envelopes : Get(e, "success", None) = Some(TRUE)}

\* /api/Auth/loginKey: the token field is a string; the service sends it
\* with success: true, and an envelope may lack it.
LoginEnvelopes ==
    Envelopes
    \cup {With(e, "token", Some("abc")) : e \in SayingSuccess}
    \cup {[success |-> Some(TRUE), errorCode |-> Some(0), token |-> Some("xyz")]}

\* The value of the resource field of o's endpoint
Resource(o) == IF PayloadKey(o) = "orderId" THEN Some(9056) ELSE <<"row">>

\* A domain endpoint: the envelope, with or without the resource field.
OwnEnvelopes(o) ==
    Envelopes \cup {With(e, PayloadKey(o), Resource(o)) : e \in SayingSuccess}

\* /api/Auth/validate answers with a status only.
NoBody == [x \in {} |-> None]

\* Bodies that come with a non-2xx status.
ErrorBodies ==
    {NoBody,
     [success |-> Some(TRUE), errorCode |-> Some(0), token |-> Some("abc")],
     [success |-> Some(FALSE), errorCode |-> Some(7),
      errorMessage |-> Some("bad key")]}

ConnectError == [error |-> "ConnectError"]

HttpResponses(envs) ==
    [status : {200}, data : envs] \cup [status : {401}, data : ErrorBodies]

Responses(envs) == {ConnectError} \cup HttpResponses(envs)

NoResponse == [error |-> ""]

-----------------------------------------------------------------------------
(* Outcomes of an invocation *)

NoResult ==
    [outcome |-> "none", exc |-> "", message |-> None, error_code |-> None,
     value |-> None, resp |-> NoResponse, stage |-> ""]

Returned(v, r, st) ==
    [outcome |-> "return", exc |-> "", message |-> None, error_code |-> None,
     value |-> v, resp |-> r, stage |-> st]

\* raise kind(message=..., error_code=...)
Raised(kind, data, r, st) ==
    [outcome |-> "raise", exc |-> kind, message |-> ErrorMessage(data),
     error_code |-> ErrorCode(data), value |-> None, resp |-> r, stage |-> st]

\* An exception that is not a TopStepXError (httpx's, or KeyError)
Propagated(kind, r, st) ==
    [outcome |-> "raise", exc |-> kind, message |-> None, error_code |-> None,
     value |-> None, resp |-> r, stage |-> st]

Snapshot == [token |-> token, token_expires |-> token_expires]

NoSnapshot == [token |-> None, token_expires |-> None]

-----
(* Initial state: TopStepXAuth.__init__, nothing invoked yet *)

Init ==
    /\ token = None
    /\ token_expires = None
    /\ now = 0
    /\ pc = [t \in Tasks |-> "idle"]
    /\ op = [t \in Tasks |-> ""]
    /\ hdr = [t \in Tasks |-> None]
    /\ trace = [t \in Tasks |-> << >>]
    /\ before = [t \in Tasks |-> NoSnapshot]
    /\ res = [t \in Tasks |-> NoResult]
    /\ elapsed = [t \in Tasks |-> FALSE]
    /\ loginTime = None

-----------------------------------------------------------------------------
(* Steps of a coroutine *)

\* Task t invokes the public method o.
Begin(t, o) ==
    /\ pc[t] \in {"idle", "done"}
    /\ op' = [op EXCEPT ![t] = o]
    /\ before' = [before EXCEPT ![t] = Snapshot]
    /\ elapsed' = [elapsed EXCEPT ![t] = FALSE]

\* The coroutine suspends at `await client.post(...)`, or on leaving the
\* `async with` block; tr is the invocation's history so far, h its headers.
Suspend(t, at, tr, h) ==
    /\ pc' = [pc EXCEPT ![t] = at]
    /\ trace' = [trace EXCEPT ![t] = tr]
    /\ hdr' = [hdr EXCEPT ![t] = h]

\* The invocation ends with the outcome r.
End(t, r, tr) ==
    /\ pc' = [pc EXCEPT ![t] = "done"]
    /\ res' = [res EXCEPT ![t] = r]
    /\ trace' = [trace EXCEPT ![t] = tr]

\* `await self._login()` up to the post of /api/Auth/loginKey
SendLogin(t) ==
    /\ Suspend(t, "login_wait", <<"login">>, None)
    /\ res' = [res EXCEPT ![t] = NoResult]

\* The post of the method's own endpoint, `headers=self.auth.get_headers()`
SendOwn(t, tr) ==
    Suspend(t, "own_wait", tr \o <<"token", "own">>, Some(get_headers(token)))

\* TopStepXAuth.get_valid_token
get_valid_token(t) ==
    /\ Begin(t, "get_valid_token")
    /\ IF NeedsLogin(token, token_expires, now)
         THEN SendLogin(t)
         ELSE /\ End(t, Returned(token, NoResponse, "none"), <<"token">>)
              /\ hdr' = [hdr EXCEPT ![t] = None]
    /\ UNCHANGED <<token, token_expires, now, loginTime>>

\* TopStepXAuth._login
_login(t) ==
    /\ Begin(t, "_login")
    /\ SendLogin(t)
    /\ UNCHANGED <<token, token_expires, now, loginTime>>

\* TopStepXAuth.get_headers, called by itself
CallGetHeaders(t) ==
    /\ Begin(t, "get_headers")
    /\ End(t, Returned(get_headers(token), NoResponse, "none"), << >>)
    /\ hdr' = [hdr EXCEPT ![t] = None]
    /\ UNCHANGED <<token, token_expires, now, loginTime>>

\* TopStepXAuth._is_token_expired, called by itself
CallIsTokenExpired(t) ==
    /\ Begin(t, "_is_token_expired")
    /\ End(t, Returned(_is_token_expired(token_expires, now), NoResponse, "none"),
           << >>)
    /\ hdr' = [hdr EXCEPT ![t] = None]
    /\ UNCHANGED <<token, token_expires, now, loginTime>>

\* TopStepXAuth.validate_token up to the post of /api/Auth/validate
validate_token(t) ==
    /\ Begin(t, "validate_token")
    /\ IF ~TruthyStr(token)
         THEN /\ End(t, Returned(FALSE, NoResponse, "none"), << >>)
              /\ hdr' = [hdr EXCEPT ![t] = None]
         ELSE /\ Suspend(t, "validate_wait", <<"validate">>,
                         Some(get_headers(token)))
              /\ res' = [res EXCEPT ![t] = NoResult]
    /\ UNCHANGED <<token, token_expires, now, loginTime>>

\* A method of TopStepXClient up to its first post:
\* `await self.auth.get_valid_token()`, then the request to its own endpoint
DomainCall(t, o) ==
    /\ Begin(t, o)
    /\ IF NeedsLogin(token, token_expires, now)
         THEN SendLogin(t)
         ELSE /\ SendOwn(t, << >>)
              /\ res' = [res EXCEPT ![t] = NoResult]
    /\ UNCHANGED <<token, token_expires, now, loginTime>>

\* Whether _login reaches its two assignments on the answer r
LoginAccepted(r) ==
    /\ r # ConnectError
    /\ ~RaisesForStatus(r)
    /\ IsSuccess(r.data)
    /\ "token" \in DOMAIN r.data

\* Variant: a login that fails clears the session
SessionClearedOnFailure(r) ==
    IF LoginAccepted(r)
      THEN [token |-> r.data["token"], token_expires |-> NewExpiry(now)]
      ELSE [token |-> None, token_expires |-> None]

\* Variant: a login that completes while the held token is valid keeps it
SessionKeptIfValid(r) ==
    IF LoginAccepted(r) /\ NeedsLogin(token, token_expires, now)
      THEN [token |-> r.data["token"], token_expires |-> NewExpiry(now)]
      ELSE [token |-> token, token_expires |-> token_expires]

\* Variant: a login that fails drops the held token, leaving its expiry
SessionRevokedOnFailure(r) ==
    IF LoginAccepted(r)
      THEN [token |-> r.data["token"], token_expires |-> NewExpiry(now)]
      ELSE [token |-> None, token_expires |-> token_expires]

\* token and token_expires once _login has handled the answer r
SessionAfterLogin(r) ==
    IF LoginAccepted(r)
      THEN [token |-> r.data["token"], token_expires |-> NewExpiry(now)]
      ELSE [token |-> token, token_expires |-> token_expires]

\* What _login raises on the answer r when it does not store a token
LoginFailure(r) ==
    IF r = ConnectError THEN Propagated("ConnectError", r, "login")
    ELSE IF RaisesForStatus(r) THEN Propagated("HTTPStatusError", r, "login")
    ELSE IF IsSuccess(r.data) THEN Propagated("KeyError", r, "login")
    ELSE Raised("AuthenticationError", r.data, r, "login")

\* Variant: a login that fails is posted once more
LoginResponseRetrying(t, r) ==
    /\ pc[t] = "login_wait"
    /\ token' = SessionAfterLogin(r).token
    /\ token_expires' = SessionAfterLogin(r).token_expires
    /\ loginTime' = IF LoginAccepted(r) THEN Some(now) ELSE loginTime
    /\ IF LoginAccepted(r)
         THEN /\ pc' = [pc EXCEPT ![t] = "login_close"]
              /\ res' = [res EXCEPT ![t] = [NoResult EXCEPT !.resp = r]]
              /\ UNCHANGED trace
         ELSE IF Count(trace[t], "login") < 2
         THEN /\ trace' = [trace EXCEPT ![t] = Append(trace[t], "login")]
              /\ UNCHANGED <<pc, res>>
         ELSE End(t, LoginFailure(r), trace[t])
    /\ UNCHANGED <<now, op, before, elapsed, hdr>>

\* _login from the answer of /api/Auth/loginKey on
LoginResponse(t, r) ==
    /\ pc[t] = "login_wait"
    /\ token' = SessionAfterLogin(r).token
    /\ token_expires' = SessionAfterLogin(r).token_expires
    /\ loginTime' = IF LoginAccepted(r) THEN Some(now) ELSE loginTime
    /\ IF LoginAccepted(r)
         THEN /\ pc' = [pc EXCEPT ![t] = "login_close"]
              /\ res' = [res EXCEPT ![t] = [NoResult EXCEPT !.resp = r]]
              /\ UNCHANGED trace
         ELSE End(t, LoginFailure(r), trace[t])
    /\ UNCHANGED <<now, op, before, elapsed, hdr>>

\* After a successful login the transport session is closed, _login returns,
\* get_valid_token returns self.token, and a client method posts its request.
LoginClose(t) ==
    /\ pc[t] = "login_close"
    /\ UNCHANGED <<token, token_expires, now, loginTime, op, before, elapsed>>
    /\ IF op[t] = "_login"
         THEN /\ End(t, Returned(None, res[t].resp, "login"), trace[t])
              /\ UNCHANGED hdr
         ELSE IF op[t] = "get_valid_token"
         THEN /\ End(t, Returned(token, res[t].resp, "login"),
                     Append(trace[t], "token"))
              /\ UNCHANGED hdr
         ELSE /\ SendOwn(t, trace[t])
              /\ UNCHANGED res

\* How the client method o ends on the answer r of its own endpoint
OwnOutcome(o, r) ==
    IF r = ConnectError THEN Propagated("ConnectError", r, "own")
    ELSE IF RaisesForStatus(r) THEN Propagated("HTTPStatusError", r, "own")
    ELSE IF IsSuccess(r.data) THEN Returned(Payload(o, r.data), r, "own")
    ELSE Raised(ErrorKind(o), r.data, r, "own")

\* A client method from the answer of its own endpoint on
OwnResponse(t, r) ==
    /\ pc[t] = "own_wait"
    /\ End(t, OwnOutcome(op[t], r), trace[t])
    /\ UNCHANGED <<token, token_expires, now, loginTime, op, before, elapsed, hdr>>

\* How validate_token ends on the answer r: `response.status_code == 200`
ValidateOutcome(r) ==
    IF r = ConnectError THEN Propagated("ConnectError", r, "validate")
    ELSE Returned(r.status = 200, r, "validate")

\* validate_token from the answer of /api/Auth/validate on
ValidateResponse(t, r) ==
    /\ pc[t] = "validate_wait"
    /\ End(t, ValidateOutcome(r), trace[t])
    /\ UNCHANGED <<token, token_expires, now, loginTime, op, before, elapsed, hdr>>

-----
(* The clock *)

\* The clock is observed at these distances before (after, if negative) the
\* expiry of the token, and at wide intervals while there is no token.
Offsets == {60, 10, 5, 3, 0, -60}

Idle == 720

Instants ==
    IF token_expires = None
      THEN {now + Idle}
      ELSE {token_expires[1] - d : d \in Offsets}

\* Time passes: datetime.now() moves on to a later instant.
Tick ==
    /\ \E n \in Instants : n > now /\ n <= MaxTime /\ now' = n
    /\ elapsed' = [t \in Tasks |-> TRUE]
    /\ UNCHANGED <<token, token_expires, pc, op, hdr, trace, before, res,
                   loginTime>>

-----
(* One caller at a time *)

Step(t) ==
    \/ get_valid_token(t)
    \/ _login(t)
    \/ CallGetHeaders(t)
    \/ CallIsTokenExpired(t)
    \/ validate_token(t)
    \/ \E o \in DomainOps : DomainCall(t, o)
    \/ \E r \in Responses(LoginEnvelopes) : LoginResponse(t, r)
    \/ LoginClose(t)
    \/ \E r \in Responses(OwnEnvelopes(op[t])) : OwnResponse(t, r)
    \/ \E r \in Responses({NoBody}) : ValidateResponse(t, r)

Next == Step(Main) \/ Tick

Spec == Init /\ [][Next]_vars

-----------------------------------------------------------------------------
(* Concurrent callers: coroutines on one event loop sharing one TopStepXAuth. *)
(* Nothing orders them, and nothing guards token and token_expires.           *)

ConcurrentOps == {"place_order", "get_open_positions"}

Accepting(tk) == [success |-> Some(TRUE), errorCode |-> Some(0), token |-> Some(tk)]

Refusing ==
    [success |-> Some(FALSE), errorCode |-> Some(7), errorMessage |-> Some("bad key")]

ConcurrentLoginAnswers ==
    {ConnectError} \cup [status : {200}, data : {Accepting(tk) : tk \in Tokens} \cup {Refusing}]

ConcurrentOwnAnswers ==
    {ConnectError} \cup [status : {200}, data : {Accepting("abc"), Refusing}]

ConcurrentStep(t) ==
    \/ get_valid_token(t)
    \/ \E o \in ConcurrentOps : DomainCall(t, o)
    \/ \E r \in ConcurrentLoginAnswers : LoginResponse(t, r)
    \/ LoginClose(t)
    \/ \E r \in ConcurrentOwnAnswers : OwnResponse(t, r)

ConcurrentNext == (\E t \in Tasks : ConcurrentStep(t)) \/ Tick

ConcurrentSpec == Init /\ [][ConcurrentNext]_vars

-----------------------------------------------------------------------------
(* Vocabulary of the properties, stated apart from the code's operators *)

\* The envelope is a success: success == true and errorCode == 0.
WireSuccess(data) ==
    /\ "success" \in DOMAIN data /\ data["success"] = Some(TRUE)
    /\ "errorCode" \in DOMAIN data /\ data["errorCode"] = Some(0)

\* The answer is a transport failure: no connection, or a non-2xx status.
TransportFailure(r) ==
    r = ConnectError \/ r.status < 200 \/ r.status > 299

\* A token exists and the clock is strictly before expiry minus five minutes.
ValidAt(tok, exp, clock) == tok # None /\ exp # None /\ clock < exp[1] - 5

Logins(t) == Count(trace[t], "login")

-----------------------------------------------------------------------------
\* C1: in every reachable state token is non-null exactly when token_expires
\* is non-null, and token is non-null only if a login exchange has succeeded.
C1_TokenSetWithExpiry ==
    /\ token # None <=> token_expires # None
    /\ token # None => loginTime # None

\* A later login failed while a token from an earlier login was held.
C1_Witness ==
    /\ token # None /\ token_expires # None
    /\ pc[Main] = "done" /\ res[Main].exc = "AuthenticationError"

\* C2: get_valid_token returns the stored token without a login exchange when
\* the token is valid, and otherwise posts one login and returns the token
\* that login stored; a second call made at once after one that returned
\* posts no login and returns the same token, the two calls together having
\* posted at most one login (exactly one from an unauthenticated session).
C2_GetValidToken ==
    [][ /\ get_valid_token(Main) =>
             IF ValidAt(token, token_expires, now)
               THEN /\ pc'[Main] = "done" /\ res'[Main].outcome = "return"
                    /\ res'[Main].value = token
                    /\ Logins(Main)' = 0
               ELSE pc'[Main] = "login_wait" /\ trace'[Main] = <<"login">>
        /\ (op[Main] = "get_valid_token" /\ LoginClose(Main)) =>
             /\ pc'[Main] = "done" /\ res'[Main].outcome = "return"
             /\ res'[Main].value = token /\ token # None
             /\ token = res[Main].resp.data["token"]
             /\ Logins(Main)' = 1
        /\ ( /\ get_valid_token(Main)
             /\ pc[Main] = "done" /\ op[Main] = "get_valid_token"
             /\ res[Main].outcome = "return" /\ ~elapsed[Main] ) =>
             /\ pc'[Main] = "done" /\ res'[Main].outcome = "return"
             /\ res'[Main].value = res[Main].value
             /\ Logins(Main)' = 0
             /\ Logins(Main) <= 1
             /\ before[Main].token = None => Logins(Main) = 1
      ]_vars

\* A second call returned at once after a first call that had to log in.
C2_Witness ==
    /\ pc[Main] = "done" /\ op[Main] = "get_valid_token"
    /\ res[Main].outcome = "return" /\ res[Main].value = Some("xyz")
    /\ trace[Main] = <<"token">> /\ ~elapsed[Main]
    /\ loginTime = Some(now)

\* C3 as stated: after a login at time t, a get_valid_token call at any time
\* before t + 24 h returns the same token and posts no login.
C3_WholeWindow ==
    [][ ( /\ get_valid_token(Main)
          /\ loginTime # None /\ now < loginTime[1] + 24 * 60 ) =>
          /\ pc'[Main] = "done" /\ res'[Main].outcome = "return"
          /\ res'[Main].value = token
          /\ Logins(Main)' = 0
      ]_vars

\* C3 as amended: after a login at time t, a get_valid_token call at any time
\* before t + 24 h - 5 min returns the same token and posts no login.
C3_UpToMargin ==
    [][ ( /\ get_valid_token(Main)
          /\ loginTime # None /\ now < loginTime[1] + 24 * 60 - 5 ) =>
          /\ pc'[Main] = "done" /\ res'[Main].outcome = "return"
          /\ res'[Main].value = token
          /\ Logins(Main)' = 0
      ]_vars

\* A call ten minutes before the expiry returned the token without a login.
C3_Witness ==
    /\ pc[Main] = "done" /\ op[Main] = "get_valid_token"
    /\ res[Main].outcome = "return" /\ res[Main].value = token
    /\ trace[Main] = <<"token">> /\ ~elapsed[Main]
    /\ loginTime # None /\ now = loginTime[1] + 24 * 60 - 10

\* The invocation of t ended on the answer of its login exchange, which was
\* an envelope (status 2xx) that is not a success.
LoginRefused(t) ==
    /\ pc[t] = "done" /\ res[t].stage = "login"
    /\ ~TransportFailure(res[t].resp) /\ ~WireSuccess(res[t].resp.data)

\* The same for the exchange with the method's own endpoint.
OwnRefused(t) ==
    /\ pc[t] = "done" /\ res[t].stage = "own"
    /\ ~TransportFailure(res[t].resp) /\ ~WireSuccess(res[t].resp.data)

\* C4: when the login exchange returns an envelope that is not a success, the
\* invocation raises AuthenticationError with the envelope's errorMessage and
\* errorCode, and token and token_expires are what they were before the call.
C4_RefusedLoginLeavesSession ==
    \A t \in Tasks :
        LoginRefused(t) =>
            /\ res[t].outcome = "raise" /\ res[t].exc = "AuthenticationError"
            /\ res[t].error_code = Get(res[t].resp.data, "errorCode", None)
            /\ "errorMessage" \in DOMAIN res[t].resp.data =>
                   res[t].message = res[t].resp.data["errorMessage"]
            /\ token = before[t].token
            /\ token_expires = before[t].token_expires

\* get_valid_token found the held token expired, and the login was refused.
C4_Witness ==
    /\ LoginRefused(Main) /\ op[Main] = "get_valid_token"
    /\ res[Main].message = Some("bad key") /\ res[Main].error_code = Some(7)
    /\ before[Main].token = Some("xyz") /\ token = Some("xyz")
    /\ token_expires # None /\ now >= token_expires[1]

\* C5: get_valid_token and the client methods post a login exactly when it is
\* not the case that a token exists and the clock is strictly before
\* token_expires minus five minutes: they do with no login so far, an expiry
\* in the past, three minutes ahead or exactly five minutes ahead, and do not
\* with an expiry ten minutes or one hour ahead.
C5_ValidIffBeforeMargin ==
    [][ \A t \in Tasks :
          (get_valid_token(t) \/ \E o \in DomainOps : DomainCall(t, o)) =>
            /\ Logins(t)' = 1 <=> ~ValidAt(token, token_expires, now)
            /\ Logins(t)' = 0 <=> ValidAt(token, token_expires, now)
            /\ token = None => Logins(t)' = 1
            /\ token_expires # None =>
                  /\ token_expires[1] - now < 0 => Logins(t)' = 1
                  /\ token_expires[1] - now = 3 => Logins(t)' = 1
                  /\ token_expires[1] - now = 5 => Logins(t)' = 1
                  /\ token_expires[1] - now = 10 => Logins(t)' = 0
                  /\ token_expires[1] - now = 60 => Logins(t)' = 0
      ]_vars

\* get_valid_token was called exactly five minutes before the expiry and
\* posted a login.
C5_Witness ==
    /\ pc[Main] = "login_wait" /\ op[Main] = "get_valid_token"
    /\ ~elapsed[Main] /\ token # None /\ token_expires # None
    /\ now = token_expires[1] - 5

\* C6: an answer is taken as a success - a value returned from it, or its
\* token stored - only if its envelope has success == true and
\* errorCode == 0; on every other envelope the invocation raises.
C6_SuccessNeedsFlagAndCode ==
    \A t \in Tasks :
        /\ ( /\ pc[t] = "done" /\ res[t].stage \in {"login", "own"}
             /\ res[t].outcome = "return" ) =>
               /\ ~TransportFailure(res[t].resp)
               /\ WireSuccess(res[t].resp.data)
        /\ pc[t] = "login_close" =>
               /\ ~TransportFailure(res[t].resp)
               /\ WireSuccess(res[t].resp.data)
               /\ token # None
        /\ (LoginRefused(t) \/ OwnRefused(t)) =>
               /\ res[t].outcome = "raise" /\ res[t].value = None
               /\ LoginRefused(t) => token = before[t].token

\* place_order got success: true with a non-zero errorCode and raised.
C6_Witness ==
    /\ OwnRefused(Main) /\ op[Main] = "place_order"
    /\ Get(res[Main].resp.data, "success", None) = Some(TRUE)
    /\ Get(res[Main].resp.data, "errorCode", None) = Some(7)
    /\ "orderId" \in DOMAIN res[Main].resp.data
    /\ res[Main].outcome = "raise"

\* The error kind of each resource.
KindOf(o) ==
    IF o \in {"place_order", "search_orders", "get_open_orders", "cancel_order",
              "modify_order"} THEN "OrderError"
    ELSE IF o \in {"get_open_positions", "close_position",
                   "partial_close_position"} THEN "PositionError"
    ELSE IF o \in {"get_active_accounts", "get_available_contracts",
                   "search_trades"} THEN "APIError"
    ELSE "AuthenticationError"

\* C7: on an envelope failure of its own exchange an order method raises
\* OrderError, a position method PositionError, the account, contract and
\* trade methods APIError, and login AuthenticationError, each with
\* error_code equal to the envelope's errorCode.
C7_ErrorKindOfResource ==
    \A t \in Tasks :
        /\ OwnRefused(t) =>
              /\ op[t] \in DomainOps
              /\ res[t].outcome = "raise" /\ res[t].exc = KindOf(op[t])
              /\ res[t].error_code = Get(res[t].resp.data, "errorCode", None)
        /\ (LoginRefused(t) /\ op[t] \in {"_login", "get_valid_token"}) =>
              /\ res[t].outcome = "raise" /\ res[t].exc = KindOf(op[t])
              /\ res[t].error_code = Get(res[t].resp.data, "errorCode", None)

\* close_position was refused with errorCode 7 and raised PositionError.
C7_Witness ==
    /\ OwnRefused(Main) /\ op[Main] = "close_position"
    /\ res[Main].exc = "PositionError" /\ res[Main].error_code = Some(7)

\* `errorMessage or "Unknown error"`: the text when it is a non-empty string,
\* "Unknown error" when the field is missing, null or empty.
MessageOrUnknown(data) ==
    IF /\ "errorMessage" \in DOMAIN data
       /\ data["errorMessage"] # None /\ data["errorMessage"] # Some("")
      THEN data["errorMessage"]
      ELSE Some("Unknown error")

\* C8: the message of every error raised for an envelope failure is
\* `errorMessage or "Unknown error"`: the server's text when it is a
\* non-empty string, "Unknown error" when the field is missing or null.
C8_MessageOrUnknown ==
    \A t \in Tasks :
        (LoginRefused(t) \/ OwnRefused(t)) =>
            res[t].message = MessageOrUnknown(res[t].resp.data)

\* The headers a request carries with a token that a login can have stored.
BearerHeaders == {Some([Authorization |-> "Bearer " \o tk]) : tk \in Tokens}

\* The invocation of t ended on a transport failure of one of its exchanges.
TransportFailed(t) ==
    /\ pc[t] = "done" /\ res[t].stage \in {"login", "own", "validate"}
    /\ TransportFailure(res[t].resp)

\* The transport's own failure reached the caller, and the session is as it
\* was when the method was invoked.
FailurePropagated(t) ==
    /\ res[t].outcome = "raise"
    /\ res[t].exc = (IF res[t].resp = ConnectError THEN "ConnectError"
                                                    ELSE "HTTPStatusError")
    /\ res[t].message = None /\ res[t].error_code = None
    /\ res[t].value = None
    /\ res[t].stage = "login" => token = before[t].token
                                  /\ token_expires = before[t].token_expires

\* C9 as stated: a transport failure of any exchange reaches the caller as
\* the transport's own failure, never as a TopStepX error or a returned value,
\* and leaves token and token_expires unchanged.
C9_EveryExchange ==
    \A t \in Tasks : TransportFailed(t) => FailurePropagated(t)

\* C9 as amended: that holds of the login exchange and of the exchange of
\* every client method; validate_token propagates a connection error but
\* returns False for a non-2xx status.
C9_LoginAndOwnExchanges ==
    \A t \in Tasks :
        TransportFailed(t) =>
            IF res[t].stage = "validate" /\ res[t].resp # ConnectError
              THEN res[t].outcome = "return" /\ res[t].value = FALSE
              ELSE FailurePropagated(t)

\* The login posted by cancel_order, with a token held, was answered 401 with
\* a body that reads as a success envelope: HTTPStatusError reached the
\* caller and the held token stayed.
C9_Witness ==
    /\ TransportFailed(Main) /\ op[Main] = "cancel_order"
    /\ res[Main].stage = "login" /\ res[Main].exc = "HTTPStatusError"
    /\ WireSuccess(res[Main].resp.data)
    /\ token = Some("xyz") /\ before[Main].token = Some("xyz")

\* C10: a client method posts to its own endpoint only after get_valid_token
\* has returned, with the header Authorization: Bearer <token> of a token
\* that a successful login stored; when its login fails, its own endpoint is
\* never contacted and the caller receives the failure of the login.
C10_TokenBeforeOwnRequest ==
    \A t \in Tasks :
        op[t] \in DomainOps =>
            /\ Count(trace[t], "own") > 0 =>
                  /\ trace[t] \in {<<"token", "own">>, <<"login", "token", "own">>}
                  /\ hdr[t] \in BearerHeaders
                  /\ loginTime # None
            /\ pc[t] = "own_wait" => Count(trace[t], "own") = 1
            /\ (pc[t] = "done" /\ res[t].stage = "login") =>
                  /\ trace[t] = <<"login">> /\ hdr[t] = None
                  /\ res[t].outcome = "raise"
                  /\ res[t].exc \in {"AuthenticationError", "ConnectError",
                                      "HTTPStatusError", "KeyError"}
            /\ (pc[t] = "done" /\ res[t].stage = "own") =>
                  Count(trace[t], "own") = 1

\* search_trades logged in, then posted its request with the new token.
C10_Witness ==
    /\ op[Main] = "search_trades" /\ pc[Main] = "own_wait"
    /\ trace[Main] = <<"login", "token", "own">>
    /\ hdr[Main] = Some([Authorization |-> "Bearer xyz"])
    /\ token = Some("xyz")

\* The invocation of t ended on an answer that was a failure: a transport
\* failure, or an envelope that is not a success.
EndedOnFailure(t) ==
    /\ pc[t] = "done" /\ res[t].stage \in {"login", "own"}
    /\ \/ TransportFailure(res[t].resp)
       \/ ~WireSuccess(res[t].resp.data)

\* C11: one invocation posts at most one login and at most one request to its
\* own endpoint, and get_valid_token at most one login; an invocation whose
\* login or own exchange failed has ended with that failure, the failed
\* exchange being its last.
C11_NoRetry ==
    \A t \in Tasks :
        /\ Logins(t) <= 1
        /\ Count(trace[t], "own") <= 1
        /\ Count(trace[t], "validate") <= 1
        /\ op[t] \in {"get_valid_token", "_login"} => Count(trace[t], "own") = 0
        /\ op[t] \in DomainOps => Count(trace[t], "validate") = 0
        /\ pc[t] = "login_wait" => trace[t] = <<"login">>
        /\ pc[t] = "own_wait" =>
              trace[t] \in {<<"token", "own">>, <<"login", "token", "own">>}
        /\ EndedOnFailure(t) =>
              /\ res[t].outcome = "raise"
              /\ res[t].stage = "login" => trace[t] = <<"login">>
              /\ res[t].stage = "own" =>
                    trace[t] \in {<<"token", "own">>, <<"login", "token", "own">>}

\* cancel_order logged in, was refused by its own endpoint, and ended there.
C11_Witness ==
    /\ EndedOnFailure(Main) /\ op[Main] = "cancel_order"
    /\ res[Main].stage = "own" /\ res[Main].exc = "OrderError"
    /\ trace[Main] = <<"login", "token", "own">>

\* Task t's login was accepted in this step: _login made its two assignments.
LoginStored(t) == pc[t] = "login_wait" /\ pc'[t] = "login_close"

\* C12: with concurrent callers the refresh is not coordinated.  A caller that
\* finds the token absent or expired posts its own login, whatever the other
\* caller is doing; every login that succeeds overwrites token and
\* token_expires with its own pair, so that the session holds the pair of the
\* login that completed last; nothing else writes them; and a
\* get_valid_token that returns, returns a non-null token.
C12_LastWriterWins ==
    [][ /\ \A t \in Tasks :
             /\ ( /\ get_valid_token(t) \/ \E o \in DomainOps : DomainCall(t, o)
                  /\ ~ValidAt(token, token_expires, now) ) =>
                    pc'[t] = "login_wait" /\ trace'[t] = <<"login">>
             /\ LoginStored(t) =>
                    /\ token' = res'[t].resp.data["token"]
                    /\ token_expires' = Some(now + 24 * 60)
                    /\ loginTime' = Some(now)
             /\ ( /\ get_valid_token(t) \/ LoginClose(t)
                  /\ pc'[t] = "done" /\ op'[t] = "get_valid_token"
                  /\ res'[t].outcome = "return" ) =>
                    /\ res'[t].value # None
                    /\ res'[t].value = token'
        /\ (token' # token \/ token_expires' # token_expires) =>
             \E t \in Tasks : LoginStored(t)
      ]_vars

\* Both callers found no token and each posted a login before either was
\* answered; "main" was answered "abc" first, "other" was answered "xyz" an
\* hour before the first token's expiry, and the session holds the second pair.
C12_Witness ==
    /\ \A t \in Tasks :
          /\ pc[t] = "done" /\ op[t] = "get_valid_token"
          /\ before[t].token = None /\ trace[t] = <<"login", "token">>
          /\ res[t].outcome = "return" /\ res[t].value # None
    /\ res["main"].resp.data["token"] = Some("abc")
    /\ res["other"].resp.data["token"] = Some("xyz")
    /\ token = Some("xyz")
    /\ loginTime = Some(24 * 60 - 60)
    /\ token_expires = Some(loginTime[1] + 24 * 60)

\* C13: token and token_expires change only in the step in which a login is
\* accepted: the calls of get_headers, _is_token_expired and validate_token,
\* the answer to validate_token, the answer to a client method's own request,
\* a failed login and the passage of time leave both as they are; get_headers
\* returns exactly {"Authorization": "Bearer <token>"} for the token held,
\* valid or not; and a token that is non-null is never set back to null.
C13_OnlyLoginWritesSession ==
    [][ /\ (token' # token \/ token_expires' # token_expires) =>
             /\ \E t \in Tasks : LoginStored(t)
             /\ token' # None /\ token_expires' # None
        /\ token # None => token' # None
        /\ \A t \in Tasks :
             /\ ( \/ CallGetHeaders(t) \/ CallIsTokenExpired(t)
                  \/ validate_token(t) \/ pc[t] = "validate_wait"
                  \/ pc[t] = "own_wait" \/ pc'[t] = "own_wait" ) =>
                    UNCHANGED <<token, token_expires>>
             /\ (CallGetHeaders(t) /\ token # None) =>
                    /\ pc'[t] = "done" /\ res'[t].outcome = "return"
                    /\ res'[t].value = [Authorization |-> "Bearer " \o token[1]]
      ]_vars

\* get_headers returned the header of a token that had expired an hour
\* before, after a login to renew it had been refused.
C13_Witness ==
    /\ pc[Main] = "done" /\ op[Main] = "get_headers"
    /\ res[Main].value = [Authorization |-> "Bearer xyz"]
    /\ token = Some("xyz") /\ token_expires = Some(now - 60)
    /\ before[Main].token = Some("xyz")

=============================================================================
